---------------------------- MODULE Spec2Model ----------------------------
(***************************************************************************)
(* The RPC server bootstrap of client/rpc-servers/src/lib.rs:              *)
(* Config::deconstruct, payload_size_or_default, format_allowed_hosts,     *)
(* build_rpc_api and start_server, followed by the running server's        *)
(* handling of inbound requests under the policies start_server installed. *)
(*                                                                         *)
(* Strings are sequences of bytes (Rust's str), so that ordering,          *)
(* formatting and header validity are computed, not assumed.               *)
(* Machine integers wider than 31 bits are little-endian sequences of five *)
(* digits in base 2^20 (= MEGABYTE), which covers every usize and the      *)
(* exact product of a usize with MEGABYTE.                                 *)
(***************************************************************************)
EXTENDS Integers, Sequences, FiniteSets, TLC

VARIABLES
    ptr_width,          \* width of usize on the build target: 32 or 64
    config,             \* Config { max_connections, max_subs_per_conn, max_payload_in_mb, max_payload_out_mb }
    addrs,              \* [SocketAddr; 2]
    cors,               \* Option<&Vec<String>>
    metrics,            \* Option<RpcMetrics>: is a sink present
    id_provider,        \* Option<Box<dyn IdProvider>>: is a provider supplied
    rpc_api,            \* RpcModule<M>: registered methods, in registration order
    bindable,           \* the environment: indices of addrs the OS lets the process bind
    pc,                 \* position inside start_server, or its outcome
    limits,             \* (max_payload_in, max_payload_out, max_connections, max_subs_per_conn)
    c,                  \* the CorsLayer
    builder,            \* the ServerBuilder
    available_methods,  \* the vector captured by the rpc_methods closure
    mutations,          \* ghost: the names inserted into rpc_api since the call began
    server,             \* the built Server / the running server behind the ServerHandle
    last                \* the request being answered and what became of it

vars == << ptr_width, config, addrs, cors, metrics, id_provider, rpc_api, bindable,
           pc, limits, c, builder, available_methods, mutations, server, last >>

-----------------------------------------------------------------------------
(* Bounds of the model. *)

\* longest list of origins handed to start_server
MaxOrigins == 2

\* largest number of methods the caller registered
MaxMethods == 3

-----------------------------------------------------------------------------
(* Option<T> *)

None == << >>

Some(v) == << v >>

IsSome(o) == o # << >>

Unwrap(o) == o[1]

-----------------------------------------------------------------------------
(* Wide integers: << d1, d2, d3, d4, d5 >> stands for                      *)
(* d1 + d2*2^20 + d3*2^40 + d4*2^60 + d5*2^80, every digit in 0..2^20-1.   *)

MEGABYTE == 1048576

Base == MEGABYTE

Num(n) == << n % Base, n \div Base, 0, 0, 0 >>

\* 2^k - 1
AllOnes(k) ==
    [ i \in 1..5 |->
        IF i <= k \div 20 THEN Base - 1
        ELSE IF i = (k \div 20) + 1 THEN 2^(k % 20) - 1
        ELSE 0 ]

\* 2^k
Pow2(k) == [ i \in 1..5 |-> IF i = (k \div 20) + 1 THEN 2^(k % 20) ELSE 0 ]

\* a + n for a small n that does not carry out of the lowest digit
Plus(a, n) == [ a EXCEPT ![1] = @ + n ]

RECURSIVE LessFrom(_, _, _)
LessFrom(a, b, i) ==
    IF i = 0 THEN FALSE
    ELSE IF a[i] # b[i] THEN a[i] < b[i]
    ELSE LessFrom(a, b, i - 1)

NumLess(a, b) == LessFrom(a, b, 5)

NumMin(a, b) == IF NumLess(b, a) THEN b ELSE a

\* the exact product a * MEGABYTE of a value below 2^80
TimesMegabyte(a) == << 0, a[1], a[2], a[3], a[4] >>

usize_MAX(w) == AllOnes(w)

u32_MAX == AllOnes(32)

\* usize::saturating_mul(self, MEGABYTE) on a target whose usize has w bits
saturating_mul_MEGABYTE(a, w) ==
    IF NumLess(usize_MAX(w), TimesMegabyte(a)) THEN usize_MAX(w) ELSE TimesMegabyte(a)

\* `x as u32`: the low 32 bits of x
as_u32(a) == << a[1], a[2] % 2^12, 0, 0, 0 >>

-----------------------------------------------------------------------------
(* Module constants. *)

RPC_MAX_PAYLOAD_DEFAULT == Num(15 * MEGABYTE)

WS_MAX_CONNECTIONS == 100

WS_MAX_SUBS_PER_CONN == 1024

-----------------------------------------------------------------------------
(* Config resolution. *)

\* payload_size_or_default with the default taken as a count of bytes where
\* mebibytes were meant: the fault C1_DefaultsResolve must detect
payload_size_or_default_unitless(size_mb, w) ==
    IF IsSome(size_mb) THEN saturating_mul_MEGABYTE(Unwrap(size_mb), w)
    ELSE Num(15)

payload_size_or_default(size_mb, w) ==
    IF IsSome(size_mb) THEN saturating_mul_MEGABYTE(Unwrap(size_mb), w)
    ELSE RPC_MAX_PAYLOAD_DEFAULT

unwrap_or(o, default) == IF IsSome(o) THEN Unwrap(o) ELSE default

deconstruct(self, w) ==
    LET max_conns == as_u32(unwrap_or(self.max_connections, Num(WS_MAX_CONNECTIONS)))
        max_payload_in_mb == as_u32(payload_size_or_default(self.max_payload_in_mb, w))
        max_payload_out_mb == as_u32(payload_size_or_default(self.max_payload_out_mb, w))
        max_subs_per_conn == as_u32(unwrap_or(self.max_subs_per_conn, Num(WS_MAX_SUBS_PER_CONN)))
    IN  << max_payload_in_mb, max_payload_out_mb, max_conns, max_subs_per_conn >>

-----------------------------------------------------------------------------
(* Strings. *)

RECURSIVE StrLess(_, _)
\* the order of str: bytewise lexicographic, a proper prefix first
StrLess(s, t) ==
    IF t = << >> THEN FALSE
    ELSE IF s = << >> THEN TRUE
    ELSE IF Head(s) # Head(t) THEN Head(s) < Head(t)
    ELSE StrLess(Tail(s), Tail(t))

RECURSIVE Decimal(_)
\* Display of an unsigned integer: its decimal digits, no leading zero
Decimal(n) ==
    IF n < 10 THEN << 48 + n >>
    ELSE Decimal(n \div 10) \o << 48 + (n % 10) >>

\* "localhost:"
STR_LOCALHOST == << 108, 111, 99, 97, 108, 104, 111, 115, 116, 58 >>

\* "127.0.0.1:"
STR_LOOPBACK == << 49, 50, 55, 46, 48, 46, 48, 46, 49, 58 >>

\* "attacker.example:"
STR_ATTACKER == << 97, 116, 116, 97, 99, 107, 101, 114, 46, 101, 120, 97, 109, 112, 108, 101, 58 >>

\* "rpc_methods"
STR_RPC_METHODS == << 114, 112, 99, 95, 109, 101, 116, 104, 111, 100, 115 >>

\* "system_health"
STR_SYSTEM_HEALTH == << 115, 121, 115, 116, 101, 109, 95, 104, 101, 97, 108, 116, 104 >>

\* "foo"
STR_FOO == << 102, 111, 111 >>

\* "bar"
STR_BAR == << 98, 97, 114 >>

\* "baz"
STR_BAZ == << 98, 97, 122 >>

\* "http://a"
STR_ORIGIN_A == << 104, 116, 116, 112, 58, 47, 47, 97 >>

\* "http://b"
STR_ORIGIN_B == << 104, 116, 116, 112, 58, 47, 47, 98 >>

\* "a\nb": a line feed is not allowed in a header value
STR_ORIGIN_BAD == << 97, 10, 98 >>

Range(s) == { s[i] : i \in 1..Len(s) }


-----------------------------------------------------------------------------
(* Host allow-list. *)

RECURSIVE hosts_of(_)
\* the loop of format_allowed_hosts: two entries pushed per address
hosts_of(as) ==
    IF as = << >> THEN << >>
    ELSE << STR_LOCALHOST \o Decimal(Head(as).port),
            STR_LOOPBACK \o Decimal(Head(as).port) >> \o hosts_of(Tail(as))

\* format_allowed_hosts looking at the first address only: the fault
\* C3_AllowedHostsFromPorts must detect
format_allowed_hosts_first_only(as) ==
    [ kind |-> "Only", hosts |-> hosts_of(<< Head(as) >>) ]

format_allowed_hosts(as) == [ kind |-> "Only", hosts |-> hosts_of(as) ]

\* AllowHosts::verify on the Host header of a request (an Option): Only(list)
\* lets through the values equal to an entry; a request without Host is refused
verify_host(allow, host) ==
    /\ IsSome(host)
    /\ \/ allow.kind = "Any"
       \/ \E i \in 1..Len(allow.hosts) : allow.hosts[i] = Unwrap(host)

-----------------------------------------------------------------------------
(* Cross-origin layer. *)

\* HeaderValue::from_str succeeds on visible ASCII, space and tab
HeaderValue_from_str_ok(s) ==
    \A i \in 1..Len(s) : (s[i] >= 32 /\ s[i] # 127) \/ s[i] = 9

\* the layer built without parsing the origins: the fault
\* C6_FailureStopsStartup must detect
cors_layer_unchecked(o) ==
    IF IsSome(o) THEN [ ok |-> TRUE, kind |-> "list", list |-> Unwrap(o) ]
    ELSE [ ok |-> TRUE, kind |-> "any", list |-> << >> ]

\* lines 96-106: Err when some origin is no header value, else the layer
cors_layer(o) ==
    IF IsSome(o)
    THEN IF \E i \in 1..Len(Unwrap(o)) : ~HeaderValue_from_str_ok(Unwrap(o)[i])
         THEN [ ok |-> FALSE, kind |-> "none", list |-> << >> ]
         ELSE [ ok |-> TRUE, kind |-> "list", list |-> Unwrap(o) ]
    ELSE [ ok |-> TRUE, kind |-> "any", list |-> << >> ]

\* does the layer grant the Origin of a request (an Option)
cors_grants(layer, origin) ==
    \/ layer.kind = "any"
    \/ /\ layer.kind = "list"
       /\ IsSome(origin)
       /\ \E i \in 1..Len(layer.list) : layer.list[i] = Unwrap(origin)

-----------------------------------------------------------------------------
(* Method registry. *)

method_names(api) == [ i \in 1..Len(api) |-> api[i].name ]

RECURSIVE insert_sorted(_, _)
insert_sorted(x, s) ==
    IF s = << >> THEN << x >>
    ELSE IF StrLess(Head(s), x) THEN << Head(s) >> \o insert_sorted(x, Tail(s))
    ELSE << x >> \o s

\* the names left in the order method_names gave them: the fault
\* C4_RpcMethodsSortedSnapshot must detect
sort_unstable_skipped(v) == v

RECURSIVE sort_unstable(_)
\* slice::sort_unstable on &str: ascending in the order of str
sort_unstable(v) ==
    IF v = << >> THEN << >>
    ELSE insert_sorted(Head(v), sort_unstable(Tail(v)))

\* register_method replacing the handler of a name already registered: the
\* fault C5_CollisionPanics must detect
register_method_overwrite(api, name, handler) ==
    [ ok |-> TRUE,
      api |-> IF \E i \in 1..Len(api) : api[i].name = name
              THEN [ i \in 1..Len(api) |->
                       IF api[i].name = name THEN [ name |-> name, handler |-> handler ]
                       ELSE api[i] ]
              ELSE Append(api, [ name |-> name, handler |-> handler ]) ]

\* RpcModule::register_method: Err, and no change, on a name already registered
register_method(api, name, handler) ==
    IF \E i \in 1..Len(api) : api[i].name = name
    THEN [ ok |-> FALSE, api |-> api ]
    ELSE [ ok |-> TRUE, api |-> Append(api, [ name |-> name, handler |-> handler ]) ]

\* build_rpc_api registering on a copy and returning the registry it was given:
\* the fault C10_RegistryFrozenBeforeAccept must detect
build_rpc_api_on_copy(api) ==
    [ panicked |-> ~register_method(api, STR_RPC_METHODS, "rpc_methods").ok,
      rpc_api |-> api,
      available_methods |-> sort_unstable(method_names(api)) ]

\* lines 161-174; panicked stands for the failed expect of line 171
build_rpc_api(api) ==
    LET methods == sort_unstable(method_names(api))
        r == register_method(api, STR_RPC_METHODS, "rpc_methods")
    IN  [ panicked |-> ~r.ok, rpc_api |-> r.api, available_methods |-> methods ]

\* the result of calling method `name` of a registry whose rpc_methods closure
\* captured `captured`
call_method(api, captured, name) ==
    IF \E i \in 1..Len(api) : api[i].name = name
    THEN LET h == (CHOOSE i \in 1..Len(api) : api[i].name = name)
         IN  IF api[h].handler = "rpc_methods"
             THEN [ kind |-> "result", methods |-> Some(captured) ]
             ELSE [ kind |-> "result", methods |-> None ]
    ELSE [ kind |-> "method_not_found", methods |-> None ]

-----------------------------------------------------------------------------
(* The inputs of start_server and its environment. *)

\* mebibyte counts around the points where the byte count leaves u32 and usize
PayloadSamples ==
    { Num(1), Num(4095), Num(4096), Num(4097), Pow2(44) }

\* connection ceilings around 2^32
ConnSamples ==
    { Num(5), AllOnes(32), Pow2(32), Plus(Pow2(32), 100) }

\* subscription ceilings
SubsSamples ==
    { Num(7), Plus(Pow2(32), 100) }

\* Option<usize> over the samples that fit a usize of w bits
OptUsize(samples, w) ==
    { None } \cup { Some(v) : v \in { x \in samples : ~NumLess(usize_MAX(w), x) } }

Configs(w) ==
    [ max_connections : OptUsize(ConnSamples, w),
      max_subs_per_conn : OptUsize(SubsSamples, w),
      max_payload_in_mb : OptUsize(PayloadSamples, w),
      max_payload_out_mb : OptUsize(PayloadSamples, w) ]

DefaultConfig ==
    [ max_connections |-> None, max_subs_per_conn |-> None,
      max_payload_in_mb |-> None, max_payload_out_mb |-> None ]

Ips == { "127.0.0.1", "0.0.0.0" }

\* requested ports; 0 asks the OS for an ephemeral port
Ports == { 0, 80, 9944 }

\* the ports the OS hands out for a request of port 0
EphemeralPorts == { 49152 }

SocketAddrs == [ ip : Ips, port : Ports ]

AddrPairs == { << a, b >> : a \in SocketAddrs, b \in SocketAddrs }

DefaultAddrs == << [ ip |-> "127.0.0.1", port |-> 9944 ], [ ip |-> "127.0.0.1", port |-> 0 ] >>

OriginStrings == { STR_ORIGIN_A, STR_ORIGIN_B, STR_ORIGIN_BAD }

SeqsUpTo(S, n) == UNION { [ 1..k -> S ] : k \in 0..n }

CorsInputs == { None } \cup { Some(l) : l \in SeqsUpTo(OriginStrings, MaxOrigins) }

MethodNames == { STR_FOO, STR_BAR, STR_BAZ, STR_SYSTEM_HEALTH, STR_RPC_METHODS }

\* registries the caller can build: distinct names, each with the caller's handler
Registries ==
    { [ i \in 1..Len(ns) |-> [ name |-> ns[i], handler |-> "caller" ] ] :
        ns \in { s \in SeqsUpTo(MethodNames, MaxMethods) :
                    \A i, j \in 1..Len(s) : i # j => s[i] # s[j] } }

DefaultRegistry ==
    << [ name |-> STR_FOO, handler |-> "caller" ], [ name |-> STR_BAR, handler |-> "caller" ] >>

\* The inputs checked: every configuration on both targets, every pair of
\* addresses with every origin list and every outcome of binding, and every
\* registry with and without a metrics sink and an id provider; each group
\* varied with the others at their usual values.
Inputs ==
    { [ ptr_width |-> w, config |-> cf, addrs |-> DefaultAddrs, cors |-> None,
        metrics |-> FALSE, id_provider |-> FALSE, rpc_api |-> DefaultRegistry,
        bindable |-> { 1, 2 } ] :
        w \in { 32, 64 }, cf \in Configs(32) \cup Configs(64) }
    \cup
    { [ ptr_width |-> 64, config |-> DefaultConfig, addrs |-> ad, cors |-> co,
        metrics |-> FALSE, id_provider |-> FALSE, rpc_api |-> DefaultRegistry,
        bindable |-> bi ] :
        ad \in AddrPairs, co \in CorsInputs, bi \in SUBSET { 1, 2 } }
    \cup
    { [ ptr_width |-> 64, config |-> DefaultConfig, addrs |-> DefaultAddrs,
        cors |-> co, metrics |-> me[1], id_provider |-> me[2], rpc_api |-> ra,
        bindable |-> bi ] :
        co \in { None, Some(<< STR_ORIGIN_BAD >>) }, me \in BOOLEAN \X BOOLEAN,
        ra \in Registries, bi \in { {}, { 2 }, { 1, 2 } } }

\* the Host, Origin and method of an inbound request
HostHeaders ==
    { None } \cup
    { Some(h \o Decimal(p)) :
        h \in { STR_LOCALHOST, STR_LOOPBACK, STR_ATTACKER }, p \in Ports \cup EphemeralPorts }

OriginHeaders == { None, Some(STR_ORIGIN_A), Some(STR_ORIGIN_B) }

CalledMethods == { STR_RPC_METHODS, STR_FOO }

NoServer == [ state |-> "none", local_addr |-> None, methods |-> << >>, settings |-> None ]

Init ==
    /\ \E in \in Inputs :
        /\ in.config \in Configs(in.ptr_width)
        /\ ptr_width = in.ptr_width
        /\ config = in.config
        /\ addrs = in.addrs
        /\ cors = in.cors
        /\ metrics = in.metrics
        /\ id_provider = in.id_provider
        /\ rpc_api = in.rpc_api
        /\ bindable = in.bindable
    /\ pc = "deconstruct"
    /\ limits = None
    /\ c = None
    /\ builder = None
    /\ available_methods = None
    /\ mutations = 0
    /\ server = NoServer
    /\ last = None

-----------------------------------------------------------------------------
(* start_server, in the order of its statements. *)

\* lines 93-94
Deconstruct ==
    /\ pc = "deconstruct"
    /\ limits' = deconstruct(config, ptr_width)
    /\ pc' = "cors"
    /\ UNCHANGED << ptr_width, config, addrs, cors, metrics, id_provider, rpc_api,
                    bindable, c, builder, available_methods, mutations, server, last >>

\* lines 96-106: the `?` of line 100 returns the error of the first bad origin
BuildCors ==
    /\ pc = "cors"
    /\ LET r == cors_layer(cors)
       IN  IF r.ok
           THEN c' = Some([ kind |-> r.kind, list |-> r.list ]) /\ pc' = "builder"
           ELSE c' = c /\ pc' = "returned_err"
    /\ UNCHANGED << ptr_width, config, addrs, cors, metrics, id_provider, rpc_api,
                    bindable, limits, builder, available_methods, mutations, server, last >>

\* the builder left with the library's default host filter (any host): the
\* fault C7_HostFilterRejects must detect
new_builder_no_host_filter(lim, layer, as) ==
    [ max_request_body_size |-> lim[1],
      max_response_body_size |-> lim[2],
      max_connections |-> lim[3],
      max_subscriptions_per_connection |-> lim[4],
      ping_interval_secs |-> 30,
      host_filtering |-> [ kind |-> "Any", hosts |-> << >> ],
      proxy_get |-> << "/health", STR_SYSTEM_HEALTH >>,
      cors |-> layer,
      id_provider |-> "unset",
      logger |-> FALSE ]

\* the builder of lines 108-123: the middleware stack, then the limits, the ping
\* interval and the host filter
new_builder(lim, layer, as) ==
    [ max_request_body_size |-> lim[1],
      max_response_body_size |-> lim[2],
      max_connections |-> lim[3],
      max_subscriptions_per_connection |-> lim[4],
      ping_interval_secs |-> 30,
      host_filtering |-> format_allowed_hosts(as),
      proxy_get |-> << "/health", STR_SYSTEM_HEALTH >>,
      cors |-> layer,
      id_provider |-> "unset",
      logger |-> FALSE ]

\* lines 108-123
ConfigureBuilder ==
    /\ pc = "builder"
    /\ builder' = Some(new_builder(limits, Unwrap(c), addrs))
    /\ pc' = "id_provider"
    /\ UNCHANGED << ptr_width, config, addrs, cors, metrics, id_provider, rpc_api,
                    bindable, limits, c, available_methods, mutations, server, last >>

\* lines 125-129
SetIdProvider ==
    /\ pc = "id_provider"
    /\ builder' = Some([ Unwrap(builder) EXCEPT !.id_provider =
                            IF id_provider THEN "supplied" ELSE "RandomStringIdProvider(16)" ])
    /\ pc' = "build_rpc_api"
    /\ UNCHANGED << ptr_width, config, addrs, cors, metrics, id_provider, rpc_api,
                    bindable, limits, c, available_methods, mutations, server, last >>

\* line 131
BuildRpcApi ==
    /\ pc = "build_rpc_api"
    /\ LET r == build_rpc_api(rpc_api)
       IN  /\ rpc_api' = r.rpc_api
           /\ mutations' = IF r.rpc_api # rpc_api THEN mutations + 1 ELSE mutations
           /\ IF r.panicked
              THEN available_methods' = available_methods /\ pc' = "panicked"
              ELSE available_methods' = Some(r.available_methods) /\ pc' = "build"
    /\ UNCHANGED << ptr_width, config, addrs, cors, metrics, id_provider,
                    bindable, limits, c, builder, server, last >>

\* the address ServerBuilder::build binds: the addresses are tried in order and
\* the first the OS accepts is taken; port 0 becomes a port of the OS's choice
bound_addrs(as, ok) ==
    IF ok = {} THEN {}
    ELSE LET i == CHOOSE i \in ok : \A j \in ok : i <= j
         IN  IF as[i].port = 0
             THEN { [ ip |-> as[i].ip, port |-> p ] : p \in EphemeralPorts }
             ELSE { as[i] }

\* lines 132-135 and 138-139: with a metrics sink the logger is set first
Build ==
    /\ pc = "build"
    /\ builder' = Some([ Unwrap(builder) EXCEPT !.logger = metrics ])
    /\ IF bound_addrs(addrs, bindable) = {}
       THEN server' = server /\ pc' = "returned_err"
       ELSE \E a \in bound_addrs(addrs, bindable) :
                /\ server' = [ state |-> "built", local_addr |-> Some(a),
                               methods |-> << >>, settings |-> builder' ]
                /\ pc' = "start"
    /\ UNCHANGED << ptr_width, config, addrs, cors, metrics, id_provider, rpc_api,
                    bindable, limits, c, available_methods, mutations, last >>

\* lines 136 and 140: server.start(rpc_api)?, which takes the registry and
\* begins to accept connections, or fails
Start ==
    /\ pc = "start"
    /\ \/ /\ server' = [ server EXCEPT !.state = "accepting", !.methods = rpc_api ]
          /\ pc' = "log"
       \/ /\ server' = [ server EXCEPT !.state = "dropped" ]
          /\ pc' = "returned_err"
    /\ UNCHANGED << ptr_width, config, addrs, cors, metrics, id_provider, rpc_api,
                    bindable, limits, c, builder, available_methods, mutations, last >>

\* lines 143-149
ReturnOk ==
    /\ pc = "log"
    /\ pc' = "returned_ok"
    /\ UNCHANGED << ptr_width, config, addrs, cors, metrics, id_provider, rpc_api,
                    bindable, limits, c, builder, available_methods, mutations, server, last >>

-----------------------------------------------------------------------------
(* The running server. *)

\* What becomes of one request under the settings of line 115-123.  The host
\* filter refuses a request before any method is looked up.  The CorsLayer
\* grants or withholds the origin; whether a withheld origin also stops the
\* request on the server is decided inside the layer, so both are kept: `stop`
\* is that decision.
serve(settings, methods, captured, host, origin, method, stop) ==
    LET host_ok == verify_host(settings.host_filtering, host)
        granted == cors_grants(settings.cors, origin)
        dispatched == host_ok /\ (granted \/ ~stop)
    IN  [ host |-> host, origin |-> origin, method |-> method,
          host_ok |-> host_ok, cors_granted |-> granted, dispatched |-> dispatched,
          response |-> IF dispatched THEN call_method(methods, captured, method)
                       ELSE [ kind |-> "rejected", methods |-> None ] ]

HandleRequest ==
    /\ server.state = "accepting"
    /\ last = None
    /\ \E host \in HostHeaders, origin \in OriginHeaders, method \in CalledMethods,
          stop \in BOOLEAN :
            last' = Some(serve(Unwrap(server.settings), server.methods,
                               Unwrap(available_methods), host, origin, method, stop))
    /\ UNCHANGED << ptr_width, config, addrs, cors, metrics, id_provider, rpc_api,
                    bindable, pc, limits, c, builder, available_methods, mutations, server >>

\* the response is sent and the connection takes its next request
Respond ==
    /\ last # None
    /\ last' = None
    /\ UNCHANGED << ptr_width, config, addrs, cors, metrics, id_provider, rpc_api,
                    bindable, pc, limits, c, builder, available_methods, mutations, server >>

Next ==
    \/ Deconstruct
    \/ BuildCors
    \/ ConfigureBuilder
    \/ SetIdProvider
    \/ BuildRpcApi
    \/ Build
    \/ Start
    \/ ReturnOk
    \/ HandleRequest
    \/ Respond

Spec == Init /\ [][Next]_vars

-----------------------------------------------------------------------------
(* Properties. *)

\* C1: a configuration with all four optional fields absent resolves to
\* (15 * 1,048,576, 15 * 1,048,576, 100, 1024), on either target.
C1_DefaultsResolve ==
    (config = DefaultConfig /\ limits # None) =>
        limits = << << 0, 15, 0, 0, 0 >>, << 0, 15, 0, 0, 0 >>,
                    << 100, 0, 0, 0, 0 >>, << 1024, 0, 0, 0, 0 >> >>

\* C1 witness: the all-absent configuration has been resolved on a 32-bit target.
C1_Witness ==
    /\ config = DefaultConfig
    /\ ptr_width = 32
    /\ limits # None

\* C2: every resolved value is min(v, 2^32 - 1), v being the mebibyte count
\* times 1,048,576 for the payload sizes and the supplied value for the two
\* ceilings (the default where the field is absent): saturation, never a value
\* reduced modulo 2^32.
C2_SaturatesNeverWraps ==
    limits # None =>
        LET bytes(o) == IF IsSome(o) THEN TimesMegabyte(Unwrap(o)) ELSE << 0, 15, 0, 0, 0 >>
            count(o, d) == IF IsSome(o) THEN Unwrap(o) ELSE << d, 0, 0, 0, 0 >>
            sat(v) == NumMin(v, << 1048575, 4095, 0, 0, 0 >>)
        IN  limits = << sat(bytes(config.max_payload_in_mb)),
                        sat(bytes(config.max_payload_out_mb)),
                        sat(count(config.max_connections, 100)),
                        sat(count(config.max_subs_per_conn, 1024)) >>

\* C3: the host allow-list is allow-only and its entries are exactly
\* "localhost:<p>" and "127.0.0.1:<p>" for the ports p of the bind addresses,
\* two entries pushed per address, whatever the addresses' IPs.
C3_AllowedHostsFromPorts ==
    builder # None =>
        LET allow == Unwrap(builder).host_filtering
            ports == { addrs[i].port : i \in 1..Len(addrs) }
        IN  /\ allow.kind = "Only"
            /\ Len(allow.hosts) = 2 * Len(addrs)
            /\ Range(allow.hosts) =
                   { STR_LOCALHOST \o Decimal(p) : p \in ports }
                   \cup { STR_LOOPBACK \o Decimal(p) : p \in ports }
            /\ 9944 \in ports <=>
                   << 108, 111, 99, 97, 108, 104, 111, 115, 116, 58, 57, 57, 52, 52 >>
                       \in Range(allow.hosts)
            /\ 0 \in ports <=>
                   << 49, 50, 55, 46, 48, 46, 48, 46, 49, 58, 48 >> \in Range(allow.hosts)

\* C3 witness: two addresses with different IPs and the same port gave the
\* same two strings twice.
C3_Witness ==
    /\ builder # None
    /\ addrs[1].ip # addrs[2].ip
    /\ addrs[1].port = 9944
    /\ addrs[2].port = 9944
    /\ Cardinality(Range(Unwrap(builder).host_filtering.hosts)) = 2

\* C4: once the registry is enriched, the vector behind rpc_methods is the
\* strictly ascending (bytewise lexicographic) sequence of exactly the names
\* registered before the enrichment, so it is the same for every registration
\* order ({"foo", "bar", "baz"} gives <<"bar", "baz", "foo">>); a call of
\* rpc_methods that reaches the registry returns an object whose methods field
\* is that vector; and the vector never changes once captured.
C4_RpcMethodsSortedSnapshot ==
    /\ [](available_methods # None =>
            LET m == Unwrap(available_methods)
                registered == { rpc_api[i].name : i \in 1..(Len(rpc_api) - 1) }
            IN  /\ rpc_api[Len(rpc_api)] = [ name |-> STR_RPC_METHODS, handler |-> "rpc_methods" ]
                /\ Len(m) = Len(rpc_api) - 1
                /\ Range(m) = registered
                /\ \A i, j \in 1..Len(m) : i < j => StrLess(m[i], m[j])
                /\ registered = { << 102, 111, 111 >>, << 98, 97, 114 >>, << 98, 97, 122 >> }
                       => m = << << 98, 97, 114 >>, << 98, 97, 122 >>, << 102, 111, 111 >> >>
                /\ \A r \in Range(last) :
                       (r.dispatched /\ r.method = STR_RPC_METHODS)
                           => r.response = [ kind |-> "result", methods |-> Some(m) ])
    /\ [][available_methods # None => available_methods' = available_methods]_vars

\* C4 witness: three methods registered in an order that is not the sorted
\* one, and a call of rpc_methods answered with the sorted names.
C4_Witness ==
    /\ last # None
    /\ Unwrap(last).dispatched
    /\ Unwrap(last).method = STR_RPC_METHODS
    /\ method_names(rpc_api) = << STR_FOO, STR_BAZ, STR_BAR, STR_RPC_METHODS >>
    /\ Unwrap(last).response.methods = Some(<< STR_BAR, STR_BAZ, STR_FOO >>)

\* C5: enriching a registry that already holds a method named rpc_methods
\* panics: the registry, the caller's handler included, is left as it was, no
\* error result is returned, and the server is never built nor accepts.
C5_CollisionPanics ==
    /\ [][(pc = "build_rpc_api" /\ \E i \in 1..Len(rpc_api) : rpc_api[i].name = STR_RPC_METHODS)
            => (pc' = "panicked" /\ rpc_api' = rpc_api)]_vars
    /\ [](pc = "panicked" =>
            /\ server.state = "none"
            /\ last = None
            /\ mutations = 0
            /\ \E i \in 1..Len(rpc_api) :
                   rpc_api[i] = [ name |-> STR_RPC_METHODS, handler |-> "caller" ])
    /\ [][pc = "panicked" => pc' = "panicked"]_vars

\* C5 witness: the bootstrap has panicked on a registry of three methods.
C5_Witness ==
    /\ pc = "panicked"
    /\ Len(rpc_api) = 3
    /\ c # None

C7_HostFilterRejects ==
    \A r \in Range(last) :
        LET entries == Range(Unwrap(server.settings).host_filtering.hosts)
        IN  /\ (r.host = None \/ Unwrap(r.host) \notin entries)
                => (~r.dispatched /\ r.response.kind = "rejected")
            /\ r.host = Some(<< 97, 116, 116, 97, 99, 107, 101, 114, 46, 101, 120, 97, 109,
                                112, 108, 101, 58, 57, 57, 52, 52 >>)
                => ~r.dispatched

\* C7 witness: a request with Host attacker.example:9944 and an Origin the
\* explicit origin list grants was rejected by a server bound to port 9944.
C7_Witness ==
    /\ last # None
    /\ Unwrap(last).host = Some(STR_ATTACKER \o Decimal(9944))
    /\ Unwrap(server.local_addr).port = 9944
    /\ Unwrap(c).kind = "list"
    /\ Unwrap(last).cors_granted
    /\ ~Unwrap(last).dispatched

\* C9: on a running server the host allow-list admits localhost:<p> and
\* 127.0.0.1:<p> for the port p the server is bound to (the resolved local
\* address, also when port 0 was requested), and a request with any other
\* Host is rejected: the allow-list's ports are exactly the bound ports.
C9_AllowListIsBoundPort ==
    LET p == Unwrap(server.local_addr).port
        bound == { STR_LOCALHOST \o Decimal(p), STR_LOOPBACK \o Decimal(p) }
    IN  /\ server.state = "accepting"
            => bound \subseteq Range(Unwrap(server.settings).host_filtering.hosts)
        /\ \A r \in Range(last) :
               (r.host = None \/ Unwrap(r.host) \notin bound) => ~r.dispatched

=============================================================================
